---- MODULE Spec2Model ----
(***************************************************************************)
(* Identicon derivation of the workspace_identity prototypes:               *)
(*   hybrid_gen.py     identicon_data(name, grid_size)                      *)
(*   identicon_gen.py  generate_identicon_data(name)                        *)
(*                                                                         *)
(* Python integers are unbounded; they are modelled by their binary        *)
(* expansion (a sequence of 0/1, least significant bit first) wherever the  *)
(* code shifts or masks them.  Python floats are modelled by exact          *)
(* rationals [n, d] in lowest terms, decimal literals by the decimal        *)
(* fraction they denote.                                                    *)
(***************************************************************************)
EXTENDS Integers, Sequences, FiniteSets, TLC

(***************************************************************************)
(* Bounds of the model.                                                     *)
(***************************************************************************)
NumProcs == 2
MaxGridSize == 9

Byte == 0..255

Min(a, b) == IF a <= b THEN a ELSE b
Max(a, b) == IF a >= b THEN a ELSE b

RECURSIVE Pow2(_)
Pow2(k) == IF k <= 0 THEN 1 ELSE 2 * Pow2(k - 1)

(***************************************************************************)
(* Python int as a bit sequence (index 1 is bit 0).                         *)
(***************************************************************************)
RECURSIVE ToBits(_)
ToBits(n) == IF n = 0 THEN << >> ELSE << n % 2 >> \o ToBits(n \div 2)

RECURSIVE ToNat(_)
ToNat(x) == IF Len(x) = 0 THEN 0 ELSE Head(x) + 2 * ToNat(Tail(x))

BitAt(x, i) == IF i + 1 <= Len(x) THEN x[i + 1] ELSE 0

\* x << k
Shl(x, k) == [i \in 1..(Len(x) + k) |-> IF i <= k THEN 0 ELSE x[i - k]]

\* x | y
BitOr(x, y) == [i \in 1..Max(Len(x), Len(y)) |-> Max(BitAt(x, i - 1), BitAt(y, i - 1))]

\* x & y
BitAnd(x, y) == [i \in 1..Min(Len(x), Len(y)) |-> x[i] * y[i]]

\* bool(x) of an int
Truthy(x) == \E i \in 1..Len(x) : x[i] = 1

\* h[a:b] of a bytes object h (a function on 0..len-1): a sequence of bytes
Slice(h, a, b, len) == [i \in 1..(Min(b, len) - a) |-> h[a + i - 1]]

\* int.from_bytes(bytes, 'little')
from_bytes_little(bytes) ==
    [i \in 1..(8 * Len(bytes)) |-> (bytes[((i - 1) \div 8) + 1] \div Pow2((i - 1) % 8)) % 2]

(***************************************************************************)
(* Exact rationals.                                                         *)
(***************************************************************************)
RECURSIVE GCD(_, _)
GCD(a, b) == IF b = 0 THEN a ELSE GCD(b, a % b)

Abs(a) == IF a < 0 THEN -a ELSE a

Rat(n, d) ==
    LET g == GCD(Abs(n), d)
    IN  [n |-> n \div g, d |-> d \div g]

RInt(k) == [n |-> k, d |-> 1]

RAdd(a, b) ==
    LET g == GCD(a.d, b.d)
        l == (a.d \div g) * b.d
    IN  Rat(a.n * (l \div a.d) + b.n * (l \div b.d), l)

RNeg(a) == [n |-> -a.n, d |-> a.d]

RSub(a, b) == RAdd(a, RNeg(b))

RMul(a, b) ==
    LET g1 == GCD(Abs(a.n), b.d)
        g2 == GCD(Abs(b.n), a.d)
    IN  IF a.n = 0 \/ b.n = 0 THEN RInt(0)
        ELSE [n |-> (a.n \div g1) * (b.n \div g2), d |-> (a.d \div g2) * (b.d \div g1)]

RLt(a, b) == RSub(a, b).n < 0
RLe(a, b) == RSub(a, b).n <= 0

\* x % 1.0 (Python: the result has the sign of the divisor)
RMod1(a) == [n |-> a.n % a.d, d |-> a.d]

\* a faulty int(x): rounding to the nearest integer
TruncRounded(a) == (2 * a.n + a.d) \div (2 * a.d)
\* int(x): truncation toward zero
Trunc(a) == IF a.n < 0 THEN -((-a.n) \div a.d) ELSE a.n \div a.d

(***************************************************************************)
(* colorsys.hls_to_rgb and its helper _v, as called at hybrid_gen.py:25     *)
(* and identicon_gen.py:42.                                                 *)
(***************************************************************************)
ONE_THIRD == Rat(1, 3)
ONE_SIXTH == Rat(1, 6)
TWO_THIRD == Rat(2, 3)

hls_v(m1, m2, hue0) ==
    LET hue == RMod1(hue0)
    IN  IF RLt(hue, ONE_SIXTH)
        THEN RAdd(m1, RMul(RMul(RSub(m2, m1), hue), RInt(6)))
        ELSE IF RLt(hue, Rat(1, 2))
        THEN m2
        ELSE IF RLt(hue, TWO_THIRD)
        THEN RAdd(m1, RMul(RMul(RSub(m2, m1), RSub(TWO_THIRD, hue)), RInt(6)))
        ELSE m1

hls_to_rgb(h, l, s) ==
    IF s.n = 0 THEN << l, l, l >>
    ELSE LET m2 == IF RLe(l, Rat(1, 2))
                   THEN RMul(l, RAdd(RInt(1), s))
                   ELSE RSub(RAdd(l, s), RMul(l, s))
             m1 == RSub(RMul(RInt(2), l), m2)
         IN  << hls_v(m1, m2, RAdd(h, ONE_THIRD)),
                hls_v(m1, m2, h),
                hls_v(m1, m2, RSub(h, ONE_THIRD)) >>

(***************************************************************************)
(* hashlib.sha256(name.encode('utf-8')).digest() for the names of the       *)
(* model: the 32 bytes SHA-256 gives, as a function on 0..31.               *)
(***************************************************************************)
Names == {"", "main"}

Bytes32(s) == [i \in 0..31 |-> s[i + 1]]

sha256(name) ==
    CASE name = "" ->
           Bytes32(<< 227, 176, 196, 66, 152, 252, 28, 20, 154, 251, 244, 200,
                      153, 111, 185, 36, 39, 174, 65, 228, 100, 155, 147, 76,
                      164, 149, 153, 27, 120, 82, 184, 85 >>)
      [] name = "main" ->
           Bytes32(<< 13, 110, 64, 121, 227, 103, 3, 235, 211, 124, 0, 114,
                      47, 88, 145, 210, 139, 14, 40, 17, 220, 17, 75, 18,
                      146, 21, 18, 58, 220, 206, 54, 5 >>)

(***************************************************************************)
(* hybrid_gen.py: identicon_data                                            *)
(***************************************************************************)
\* a faulty line 21: h[0] taken as the high byte
HybridHueBigEndian(h) == ToNat(BitOr(ToBits(h[1]), Shl(ToBits(h[0]), 8))) % 360

\* line 21: hue = (h[0] | (h[1] << 8)) % 360
HybridHue(h) == ToNat(BitOr(ToBits(h[0]), Shl(ToBits(h[1]), 8))) % 360

\* lines 21-26: hue, sat, light, the HLS -> RGB conversion, fg_color
HybridColor(h) ==
    LET hue == HybridHue(h)
        sat == RAdd(Rat(1, 2), RMul(Rat(h[2], 255), Rat(3, 10)))
        light == RAdd(Rat(2, 5), RMul(Rat(h[3], 255), Rat(1, 4)))
        rgb == hls_to_rgb(Rat(hue, 360), light, sat)
    IN  [hue |-> hue, sat |-> sat, light |-> light, rgb |-> rgb,
         fg_color |-> << Trunc(RMul(rgb[1], RInt(255))),
                         Trunc(RMul(rgb[2], RInt(255))),
                         Trunc(RMul(rgb[3], RInt(255))) >>]

\* line 28
HalfOf(grid_size) == (grid_size + 1) \div 2

\* line 30: the bytes read for the pattern, and the integer they give
BitsWindow(h) == Slice(h, 4, 8, 32)

\* a faulty line 32: grid_size coerced to the next odd value
NewGridOdd(grid_size) ==
    LET n == IF grid_size % 2 = 1 THEN grid_size ELSE grid_size + 1
    IN  [r \in 0..(n - 1) |-> [c \in 0..(n - 1) |-> FALSE]]

\* line 32: a fresh grid_size x grid_size grid, all False
NewGrid(grid_size) ==
    [r \in 0..(grid_size - 1) |-> [c \in 0..(grid_size - 1) |-> FALSE]]

\* faulty lines 35: column-major, and off by one
BitIndexColMajor(half, row, col) == col * half + row
BitIndexShifted(half, row, col) == row * half + col + 1

\* line 35
BitIndex(half, row, col) == row * half + col

\* faulty lines 35-38: line 38, the mirror write, left out
FillCellNoMirror(grid, bits, grid_size, half, row, col) ==
    [grid EXCEPT ![row][col] = Truthy(BitAnd(bits, Shl(<< 1 >>, BitIndex(half, row, col))))]

\* lines 35-38: the body of the inner loop
FillCell(grid, bits, grid_size, half, row, col) ==
    LET bit_index == BitIndex(half, row, col)
        on == Truthy(BitAnd(bits, Shl(<< 1 >>, bit_index)))
        g1 == [grid EXCEPT ![row][col] = on]
    IN  [g1 EXCEPT ![row][grid_size - 1 - col] = on]

\* line 34: for col in range(half)
RECURSIVE FillCols(_, _, _, _, _, _)
FillCols(grid, bits, grid_size, half, row, col) ==
    IF col >= half THEN grid
    ELSE LET g == FillCell(grid, bits, grid_size, half, row, col)
         IN  IF DOMAIN g = DOMAIN grid   \* the writes add no row
             THEN FillCols(g, bits, grid_size, half, row, col + 1)
             ELSE g

\* line 33: for row in range(grid_size)
RECURSIVE FillRows(_, _, _, _, _)
FillRows(grid, bits, grid_size, half, row) ==
    IF row >= grid_size THEN grid
    ELSE LET g == FillCols(grid, bits, grid_size, half, row, 0)
         IN  IF DOMAIN g = DOMAIN grid
             THEN FillRows(g, bits, grid_size, half, row + 1)
             ELSE g

\* lines 19-40 run to completion on the digest h: the locals at the return.
\* No statement of the function raises, and none of its operations fails on
\* an integer grid_size: the outcome is always the return of line 40.
identicon_data(h, grid_size) ==
    LET c == HybridColor(h)
        half == HalfOf(grid_size)
        window == BitsWindow(h)
        bits == from_bytes_little(window)
    IN  [outcome |-> "return",
         hue |-> c.hue, sat |-> c.sat, light |-> c.light, rgb |-> c.rgb,
         fg_color |-> c.fg_color,
         half |-> half, bits_needed |-> grid_size * half,
         window |-> window, bits |-> bits,
         grid |-> FillRows(NewGrid(grid_size), bits, grid_size, half, 0)]

(***************************************************************************)
(* identicon_gen.py: generate_identicon_data                                *)
(***************************************************************************)
\* line 36: hue = (h[0] | (h[1] << 8)) % 360
IdenticonHue(h) == ToNat(BitOr(ToBits(h[0]), Shl(ToBits(h[1]), 8))) % 360

\* lines 36-43
IdenticonColor(h) ==
    LET hue == IdenticonHue(h)
        sat == RAdd(Rat(1, 2), RMul(Rat(h[2], 255), Rat(3, 10)))
        light == RAdd(Rat(2, 5), RMul(Rat(h[3], 255), Rat(1, 4)))
        rgb == hls_to_rgb(Rat(hue, 360), light, sat)
    IN  [hue |-> hue, sat |-> sat, light |-> light, rgb |-> rgb,
         fg_color |-> << Trunc(RMul(rgb[1], RInt(255))),
                         Trunc(RMul(rgb[2], RInt(255))),
                         Trunc(RMul(rgb[3], RInt(255))) >>]

\* a faulty line 48: byte 5 left out
IdenticonBitsLowByte(h) == ToBits(h[4])

\* line 48: bits = h[4] | (h[5] << 8)
IdenticonBits(h) == BitOr(ToBits(h[4]), Shl(ToBits(h[5]), 8))

\* lines 53-56: the body of the inner loop
IdenticonCell(grid, bits, row, col) ==
    LET bit_index == row * 3 + col
        on == Truthy(BitAnd(bits, Shl(<< 1 >>, bit_index)))
        g1 == [grid EXCEPT ![row][col] = on]
    IN  [g1 EXCEPT ![row][4 - col] = on]

\* line 52: for col in range(3)
RECURSIVE IdenticonCols(_, _, _, _)
IdenticonCols(grid, bits, row, col) ==
    IF col >= 3 THEN grid
    ELSE IdenticonCols(IdenticonCell(grid, bits, row, col), bits, row, col + 1)

\* line 51: for row in range(5)
RECURSIVE IdenticonRows(_, _, _)
IdenticonRows(grid, bits, row) ==
    IF row >= 5 THEN grid
    ELSE IdenticonRows(IdenticonCols(grid, bits, row, 0), bits, row + 1)

\* lines 33-58 run to completion on the digest h: the locals at the return
generate_identicon_data(h) ==
    LET c == IdenticonColor(h)
        bits == IdenticonBits(h)
    IN  [outcome |-> "return",
         hue |-> c.hue, sat |-> c.sat, light |-> c.light, rgb |-> c.rgb,
         fg_color |-> c.fg_color, bits |-> bits,
         grid |-> IdenticonRows([r \in 0..4 |-> [c2 \in 0..4 |-> FALSE]], bits, 0)]

\* what each function returns: (fg_color, grid)
Returned(locals) == << locals.fg_color, locals.grid >>

(***************************************************************************)
(* State.                                                                   *)
(*   Calls of identicon_data by NumProcs threads, one statement group at a  *)
(*   time: pc, frame (the locals of the call in progress), heap (the grid   *)
(*   objects of the calls in progress, by reference), result (what the last *)
(*   finished call returned).                                               *)
(*   One derivation on a digest taken as given: digest, size, ran, hybrid,  *)
(*   identicon (the locals of the two functions at their return).           *)
(***************************************************************************)
VARIABLES pc, frame, heap, result, digest, size, ran, hybrid, identicon

vars == << pc, frame, heap, result, digest, size, ran, hybrid, identicon >>
callVars == << pc, frame, heap, result >>
pureVars == << digest, size, ran, hybrid, identicon >>

Procs == 1..NumProcs

\* grid sizes of the calls: those the callers pass (hybrid_gen.py:115, 137)
CallSizes == {3, 5}

NoFrame ==
    [name |-> "", grid_size |-> 0, h |-> << >>, fg_color |-> << >>,
     half |-> 0, bits |-> << >>, grid |-> 0, row |-> 0, col |-> 0]

NoResult == [name |-> "", grid_size |-> 0, value |-> << >>]

NoLocals == [grid |-> << >>]

\* a faulty line 32: one grid object shared by every call
GridRefShared(p) == 1

\* line 32 binds grid to a list object created by this call: one object per
\* call in progress, named here by the thread that runs the call
GridRef(p) == p

ZeroDigest == [i \in 0..31 |-> 0]

\* no call in progress; digests, sizes: what the derivations may be given
Start(digests, sizes) ==
    /\ pc = [p \in Procs |-> "idle"]
    /\ frame = [p \in Procs |-> NoFrame]
    /\ heap = [r \in Procs |-> << >>]
    /\ result = [p \in Procs |-> NoResult]
    /\ digest \in digests
    /\ size \in sizes
    /\ ran = {}
    /\ hybrid = NoLocals
    /\ identicon = NoLocals

Init == Start({ZeroDigest}, {5})

(***************************************************************************)
(* identicon_data, statement by statement.                                  *)
(***************************************************************************)
\* the call and line 19
Call(p, nm, gs) ==
    /\ pc[p] \in {"idle", "done"}
    /\ frame' = [frame EXCEPT ![p] =
                    [NoFrame EXCEPT !.name = nm, !.grid_size = gs, !.h = sha256(nm)]]
    /\ result' = [result EXCEPT ![p] = NoResult]
    /\ pc' = [pc EXCEPT ![p] = "color"]
    /\ UNCHANGED << heap, pureVars >>

\* lines 21-26
Color(p) ==
    /\ pc[p] = "color"
    /\ frame' = [frame EXCEPT ![p].fg_color = HybridColor(frame[p].h).fg_color]
    /\ pc' = [pc EXCEPT ![p] = "setup"]
    /\ UNCHANGED << heap, result, pureVars >>

\* lines 28-32, and the entry of the loops of lines 33-34
Setup(p) ==
    /\ pc[p] = "setup"
    /\ LET gs == frame[p].grid_size
           half == HalfOf(gs)
       IN  /\ frame' = [frame EXCEPT ![p].half = half,
                                     ![p].bits = from_bytes_little(BitsWindow(frame[p].h)),
                                     ![p].grid = GridRef(p),
                                     ![p].row = 0, ![p].col = 0]
           /\ heap' = [heap EXCEPT ![GridRef(p)] = NewGrid(gs)]
           /\ pc' = [pc EXCEPT ![p] = IF gs > 0 /\ half > 0 THEN "fill" ELSE "return"]
    /\ UNCHANGED << result, pureVars >>

\* lines 35-38 once, and the advance of the loops of lines 33-34
Fill(p) ==
    /\ pc[p] = "fill"
    /\ LET f == frame[p]
           lastCol == f.col + 1 >= f.half
           lastRow == f.row + 1 >= f.grid_size
       IN  /\ heap' = [heap EXCEPT ![f.grid] =
                          FillCell(heap[f.grid], f.bits, f.grid_size, f.half, f.row, f.col)]
           /\ frame' = [frame EXCEPT ![p].col = IF lastCol THEN 0 ELSE f.col + 1,
                                     ![p].row = IF lastCol THEN f.row + 1 ELSE f.row]
           /\ pc' = [pc EXCEPT ![p] = IF lastCol /\ lastRow THEN "return" ELSE "fill"]
    /\ UNCHANGED << result, pureVars >>

\* line 40: the frame is popped and the grid object passes to the caller, as
\* the value of the result
Return(p) ==
    /\ pc[p] = "return"
    /\ result' = [result EXCEPT ![p] =
                     [name |-> frame[p].name, grid_size |-> frame[p].grid_size,
                      value |-> << frame[p].fg_color, heap[frame[p].grid] >>]]
    /\ heap' = [heap EXCEPT ![frame[p].grid] = << >>]
    /\ frame' = [frame EXCEPT ![p] = NoFrame]
    /\ pc' = [pc EXCEPT ![p] = "done"]
    /\ UNCHANGED pureVars

Next ==
    \E p \in Procs :
        \/ \E nm \in Names, gs \in CallSizes : Call(p, nm, gs)
        \/ Color(p)
        \/ Setup(p)
        \/ Fill(p)
        \/ Return(p)

Spec == Init /\ [][Next]_vars

(***************************************************************************)
(* The two functions on a given digest.                                     *)
(***************************************************************************)
DeriveHybrid ==
    /\ "hybrid" \notin ran
    /\ hybrid' = identicon_data(digest, size)
    /\ ran' = ran \cup {"hybrid"}
    /\ UNCHANGED << digest, size, identicon, callVars >>

DeriveIdenticon ==
    /\ "identicon" \notin ran
    /\ identicon' = generate_identicon_data(digest)
    /\ ran' = ran \cup {"identicon"}
    /\ UNCHANGED << digest, size, hybrid, callVars >>

NextDerive == DeriveHybrid \/ DeriveIdenticon

MkDigest(b) == [i \in 0..31 |-> IF i < Len(b) THEN b[i + 1] ELSE 0]

\* digests for the pattern: bytes 4..7 vary
PatternWindows == {0, 63, 64, 127, 165, 255} \X {0, 90, 128, 255} \X {0, 1, 255} \X {0, 128, 255}
PatternDigests ==
    { MkDigest(<< c[1], c[2], c[3], c[4], w[1], w[2], w[3], w[4] >>) :
        c \in {13, 255} \X {110} \X {0, 255} \X {121}, w \in PatternWindows }

\* digests for the colour: bytes 0..3 vary, every hue 0..359 occurs
ColorDigests ==
    { MkDigest(<< c[1], c[2], c[3], c[4], 227, 103, 3, 235 >>) :
        c \in Byte \X {0, 1} \X {0, 1, 127, 128, 254, 255} \X {0, 1, 127, 128, 254, 255} }

\* digests for the hue: bytes 0 and 1 take every value
HueDigests ==
    { MkDigest(<< c[1], c[2], 64, 121, 227, 103, 3, 235 >>) : c \in Byte \X Byte }

InitPattern == Start(PatternDigests, (-1)..MaxGridSize)
InitColor == Start(ColorDigests, {3, 5})
InitHue == Start(HueDigests, {5})

SpecPattern == InitPattern /\ [][NextDerive]_vars
SpecColor == InitColor /\ [][NextDerive]_vars
SpecHue == InitHue /\ [][NextDerive]_vars

(***************************************************************************)
(* Properties.                                                              *)
(***************************************************************************)
PositiveOdd(n) == n >= 1 /\ n % 2 = 1

MirrorSymmetric(grid, n) ==
    \A row \in 0..(n - 1), col \in 0..(n - 1) : grid[row][col] = grid[row][n - 1 - col]

SomeCell(grid, n, v) == \E row \in 0..(n - 1), col \in 0..(n - 1) : grid[row][col] = v

\* bit k of the little-endian integer held in digest bytes 4..7
WindowBit(d, k) == IF k < 32 THEN (d[4 + (k \div 8)] \div Pow2(k % 8)) % 2 ELSE 0

\* C1: the grid of either function is horizontally mirror-symmetric, for
\* every digest and every positive odd grid_size (3 and 5 among them, and the
\* fixed 5 of generate_identicon_data).
C1_MirrorSymmetry ==
    /\ ("hybrid" \in ran /\ PositiveOdd(size)) => MirrorSymmetric(hybrid.grid, size)
    /\ "identicon" \in ran => MirrorSymmetric(identicon.grid, 5)

C1_Witness ==
    /\ ran = {"hybrid", "identicon"}
    /\ size = 5
    /\ digest[4] = 165
    /\ hybrid.grid[0][0] /\ hybrid.grid[0][4]
    /\ ~hybrid.grid[0][1] /\ ~hybrid.grid[0][3]
    /\ identicon.grid[0][0] /\ identicon.grid[0][4]

\* C2 as claimed: a call with a grid_size that is not a positive odd integer
\* (4, 0) signals InvalidArgument instead of returning.
C2_InvalidSizeRejected ==
    ("hybrid" \in ran /\ ~PositiveOdd(size)) => hybrid.outcome = "InvalidArgument"

\* C2 as amended: a call with a grid_size that is not a positive odd integer
\* raises nothing and returns (color, grid) with grid_size taken as given:
\* the grid has exactly grid_size rows of grid_size cells (none when
\* grid_size <= 0), and is mirror-symmetric.
C2_InvalidSizeReturns ==
    ("hybrid" \in ran /\ ~PositiveOdd(size)) =>
        /\ hybrid.outcome = "return"
        /\ DOMAIN hybrid.grid = 0..(size - 1)
        /\ \A row \in 0..(size - 1) : DOMAIN hybrid.grid[row] = 0..(size - 1)
        /\ MirrorSymmetric(hybrid.grid, size)
        /\ \A i \in 1..3 : hybrid.fg_color[i] \in 0..255

C2_Witness ==
    /\ "hybrid" \in ran
    /\ size = 4
    /\ hybrid.outcome = "return"
    /\ SomeCell(hybrid.grid, 4, TRUE)

\* C4: after the fill, every left-half cell (col < half) is on exactly when
\* bit row*half + col of the little-endian integer in digest bytes 4..7 is 1.
C4_LeftHalfIsDigestBits ==
    "hybrid" \in ran =>
        LET half == (size + 1) \div 2
        IN  \A row \in 0..(size - 1), col \in 0..(half - 1) :
                hybrid.grid[row][col] = (WindowBit(digest, row * half + col) = 1)

C4_Witness ==
    /\ "hybrid" \in ran
    /\ size = 5
    /\ digest[4] = 165 /\ digest[5] = 90
    /\ hybrid.grid[4][2] /\ ~hybrid.grid[4][1] /\ hybrid.grid[0][2]

\* C5 as claimed: for every positive odd grid_size the integer read at offset
\* 4 is wide enough for grid_size * half bits: every bit index the fill uses
\* lies within the bytes read.
C5_WindowWideEnough ==
    ("hybrid" \in ran /\ PositiveOdd(size)) =>
        /\ hybrid.bits_needed <= 8 * Len(hybrid.window)
        /\ \A row \in 0..(size - 1), col \in 0..(hybrid.half - 1) :
               BitIndex(hybrid.half, row, col) < 8 * Len(hybrid.window)

\* C6: the hue is (digest[0] + 256 * digest[1]) mod 360, in 0..359.
C6_HueLittleEndian ==
    /\ "hybrid" \in ran =>
          /\ hybrid.hue = (digest[0] + 256 * digest[1]) % 360
          /\ hybrid.hue \in 0..359
    /\ "identicon" \in ran =>
          /\ identicon.hue = (digest[0] + 256 * digest[1]) % 360
          /\ identicon.hue \in 0..359

C6_Witness ==
    /\ ran = {"hybrid", "identicon"}
    /\ digest[0] = 255 /\ digest[1] = 255
    /\ hybrid.hue = 15

\* x <= y < x + 1 for the integer x and the rational y
FloorOf(x, y) == x * y.d <= y.n /\ y.n < (x + 1) * y.d

InUnit(y) == 0 <= y.n /\ y.n <= y.d

ColorInRange(l) ==
    /\ 2 * l.sat.n >= l.sat.d /\ 5 * l.sat.n <= 4 * l.sat.d
    /\ 5 * l.light.n >= 2 * l.light.d /\ 20 * l.light.n <= 13 * l.light.d
    /\ \A i \in 1..3 :
          /\ InUnit(l.rgb[i])
          /\ l.fg_color[i] \in 0..255
          /\ FloorOf(l.fg_color[i], RMul(l.rgb[i], RInt(255)))

\* C7: each channel of the returned color is an integer in 0..255, the HLS ->
\* RGB channel (in [0,1]) times 255 truncated toward zero; the saturation
\* used is in [0.5, 0.8] and the lightness in [0.4, 0.65].
C7_ChannelsTruncated ==
    /\ "hybrid" \in ran => ColorInRange(hybrid)
    /\ "identicon" \in ran => ColorInRange(identicon)

C7_Witness ==
    /\ "hybrid" \in ran
    /\ digest[2] = 255 /\ digest[3] = 255
    /\ hybrid.sat = Rat(4, 5) /\ hybrid.light = Rat(13, 20)
    /\ \E i \in 1..3 :
          LET x == RMul(hybrid.rgb[i], RInt(255))
          IN  2 * (x.n - hybrid.fg_color[i] * x.d) >= x.d

\* the grid of identicon_data for the pattern bytes w in place of digest's
WithWindow(d, w) == [i \in 0..31 |-> IF i \in 4..7 THEN w[i - 3] ELSE d[i]]

GridOfWindow(w, n) ==
    FillRows(NewGrid(n), from_bytes_little(<< w[1], w[2], w[3], w[4] >>), n, HalfOf(n), 0)

CompareWindows == {0, 63, 64, 165} \X {0, 90, 128} \X {0, 255} \X {0, 128}

SameLowBits(d, e, n) == \A k \in 0..(n - 1) : WindowBit(d, k) = WindowBit(e, k)

\* C9: for grid_size 3 and 5, two values of bits give the same grid exactly
\* when they agree on bit positions 0 .. grid_size*half - 1.
C9_GridIsLowBits ==
    ("hybrid" \in ran /\ size \in {3, 5}) =>
        \A w \in CompareWindows :
            (GridOfWindow(w, size) = hybrid.grid)
                <=> SameLowBits(WithWindow(digest, w), digest, size * ((size + 1) \div 2))

C9_Witness ==
    /\ "hybrid" \in ran
    /\ size = 5
    /\ digest[4] = 165 /\ digest[5] = 0 /\ digest[6] = 1 /\ digest[7] = 255
    /\ GridOfWindow(<< 165, 128, 0, 0 >>, 5) = hybrid.grid
    /\ GridOfWindow(<< 165, 90, 0, 0 >>, 5) # hybrid.grid

\* C10: at grid size 5 the two functions return the same color and grid.
C10_ImplementationsAgree ==
    (ran = {"hybrid", "identicon"} /\ size = 5) => Returned(identicon) = Returned(hybrid)

C10_Witness ==
    /\ ran = {"hybrid", "identicon"}
    /\ size = 5
    /\ digest[5] = 255 /\ digest[6] = 255 /\ digest[7] = 255
    /\ SomeCell(identicon.grid, 5, TRUE)

\* C3: two finished calls with the same (name, grid_size) hold the same
\* (color, grid), whatever calls ran before or between them.
C3_Deterministic ==
    \A p \in Procs, q \in Procs :
        (/\ pc[p] = "done" /\ pc[q] = "done"
         /\ result[p].name = result[q].name
         /\ result[p].grid_size = result[q].grid_size)
            => result[p].value = result[q].value

\* two calls on the empty name finished: (156, 31, 205) and a grid whose
\* row 1 is ##.##
C3_Witness ==
    \E p \in Procs, q \in Procs :
        /\ p # q
        /\ pc[p] = "done" /\ pc[q] = "done"
        /\ result[p].name = "" /\ result[q].name = ""
        /\ result[p].grid_size = 5 /\ result[q].grid_size = 5
        /\ result[p].value[1] = << 156, 31, 205 >>
        /\ result[q].value[2][1] = [c \in 0..4 |-> c # 2]

\* C8: however the steps of concurrent calls interleave, each call returns
\* what it returns run alone, and calls in progress write to distinct grids.
C8_ConcurrentCallsIsolated ==
    /\ \A p \in Procs :
          pc[p] = "done" =>
             result[p].value =
                Returned(identicon_data(sha256(result[p].name), result[p].grid_size))
    /\ \A p \in Procs, q \in Procs :
          (p # q /\ pc[p] \in {"fill", "return"} /\ pc[q] \in {"fill", "return"})
             => frame[p].grid # frame[q].grid

\* a call on "main" finished, (125, 202, 61) and row 1 ..#.., while a call
\* on the empty name is in the middle of its fill
C8_Witness ==
    \E p \in Procs, q \in Procs :
        /\ pc[p] = "done" /\ result[p].name = "main" /\ result[p].grid_size = 5
        /\ result[p].value[1] = << 125, 202, 61 >>
        /\ result[p].value[2][1] = [c \in 0..4 |-> c = 2]
        /\ pc[q] = "fill" /\ frame[q].name = "" /\ frame[q].row = 2

====
